---- MODULE Spec2Model ----
(***************************************************************************)
(* Page resolution of the nextjs-learning pages.                           *)
(*                                                                         *)
(* The repository's page files export getStaticPaths / getStaticProps and  *)
(* a page component; the framework runtime calls them.  The exported       *)
(* functions and components are translated from the code.  The runtime's   *)
(* steps (build, request, background generation, re-generation) are        *)
(* translated from the lesson notes that head the page files, which        *)
(* describe what the runtime does with the exported values.  Where the     *)
(* notes are silent (what a second request does while a generation is      *)
(* already running; whether a notFound result is kept; a request exactly   *)
(* on the revalidate second) the model takes every outcome.                *)
(*                                                                         *)
(* Spec follows a deployment of one statically generated page from build   *)
(* to serving.  SpecRuns follows single runs of a page's data function     *)
(* (getStaticProps, getServerSideProps) from its GET to the rendered       *)
(* outcome, for every reply the backend may give.  SpecClient follows a    *)
(* page component in the browser (Dashboard, DashboardSWR, Doc) from its   *)
(* first render through its re-renders.                                    *)
(***************************************************************************)
EXTENDS Integers, Sequences, FiniteSets, TLC

(* ------------------------------------------------------------------ *)
(* Bounds                                                              *)
(* ------------------------------------------------------------------ *)
MaxTime == 22        \* seconds the clock may reach
MaxVersion == 1      \* number of times the backend content may change
MaxInflight == 2     \* generations of one page that may run at once

(* ------------------------------------------------------------------ *)
(* Backend (jsonplaceholder)                                           *)
(* ------------------------------------------------------------------ *)
\* "the API only returns data for posts 1-100".  The users pages are given
\* the same range: the parameters below only tell 1..4 from 101.
LastId == 100

\* The values a request may carry in the dynamic segment of the URL.
RouteParameters == {"1", "2", "3", "4", "101"}

\* The number a URL segment denotes at the backend (`/posts/${params.postId}`).
SegmentId(s) ==
    CASE s = "1" -> 1
      [] s = "2" -> 2
      [] s = "3" -> 3
      [] s = "4" -> 4
      [] s = "101" -> 101

\* The dynamic static-generation page files of the repository.
Routes == {"users", "postsStatic", "postsFallback", "postsISR"}

\* response.data of an empty reply: an object without fields.
EmptyBody == [none |-> TRUE]

\* response.data of GET /users/{id} or /posts/{id} when the backend content
\* is at revision v: the record, or an empty object when there is none.
BackendGet(r, s, v) ==
    IF SegmentId(s) \in 1..LastId
    THEN IF r = "users"
         THEN [id |-> SegmentId(s), name |-> <<"name", v>>, email |-> <<"email", v>>]
         ELSE [userId |-> 1, id |-> SegmentId(s), title |-> <<"title", v>>,
               body |-> <<"body", v>>]
    ELSE EmptyBody

\* await axios.get(url): resolves with the backend's data, or rejects (the
\* backend cannot be reached, or the reply is no JSON).
AxiosGet(r, s, v, ok) ==
    IF ok THEN [rejected |-> FALSE, data |-> BackendGet(r, s, v)]
    ELSE [rejected |-> TRUE, data |-> EmptyBody]

(* ------------------------------------------------------------------ *)
(* Exports of the page files                                           *)
(* ------------------------------------------------------------------ *)
\* The fallback key each getStaticPaths returns.
UsersFallbackOn == TRUE
UsersFallback == FALSE
PostsStaticFallback == FALSE
PostsFallbackOff == FALSE
PostsFallbackFallback == TRUE
PostsISRFallback == TRUE

\* The paths array each getStaticPaths returns (the same in the four files).
StaticPathsShort == <<"1", "2">>
StaticPaths == <<"1", "2", "3">>

getStaticPaths(r) ==
    [paths |-> StaticPaths,
     fallback |-> CASE r = "users" -> UsersFallback
                    [] r = "postsStatic" -> PostsStaticFallback
                    [] r = "postsFallback" -> PostsFallbackFallback
                    [] r = "postsISR" -> PostsISRFallback]

KnownSet(r) == {getStaticPaths(r).paths[i] : i \in DOMAIN getStaticPaths(r).paths}

NoIdMissing(data) == "id" \notin DOMAIN data

\* !data.id
NoId(data) == ("id" \notin DOMAIN data) \/ data.id = 0

revalidate == 10

\* What getStaticProps returns: the object it returns, or the exception of a
\* rejected axios.get, which it does not catch.  The revalidate key is a
\* sequence: empty when the key is not returned.
Thrown == [threw |-> TRUE, notFound |-> FALSE, props |-> EmptyBody, revalidate |-> <<>>]
NotFoundResult == [threw |-> FALSE, notFound |-> TRUE, props |-> EmptyBody, revalidate |-> <<>>]
PropsResult(data, reval) ==
    [threw |-> FALSE, notFound |-> FALSE, props |-> data, revalidate |-> reval]

getStaticPropsPlainTimed(response) ==
    IF response.rejected THEN Thrown
    ELSE PropsResult(response.data, <<revalidate>>)

\* users/[userId].tsx and the first posts/[postId].tsx: props, whatever came.
getStaticPropsPlain(response) ==
    IF response.rejected THEN Thrown
    ELSE PropsResult(response.data, <<>>)

getStaticPropsFallbackUnchecked(response) ==
    IF response.rejected THEN Thrown
    ELSE PropsResult(response.data, <<>>)

getStaticPropsFallbackCatch(response) ==
    IF response.rejected \/ NoId(response.data) THEN NotFoundResult
    ELSE PropsResult(response.data, <<>>)

\* posts/[postId].tsx with fallback: true: notFound when the data has no id.
getStaticPropsFallback(response) ==
    IF response.rejected THEN Thrown
    ELSE IF NoId(response.data) THEN NotFoundResult
    ELSE PropsResult(response.data, <<>>)

getStaticPropsISRShort(response) ==
    IF response.rejected THEN Thrown
    ELSE IF NoId(response.data) THEN NotFoundResult
    ELSE PropsResult(response.data, <<revalidate - 5>>)

getStaticPropsISROne(response) ==
    IF response.rejected THEN Thrown
    ELSE IF NoId(response.data) THEN NotFoundResult
    ELSE PropsResult(response.data, <<1>>)

getStaticPropsISRUntimed(response) ==
    IF response.rejected THEN Thrown
    ELSE IF NoId(response.data) THEN NotFoundResult
    ELSE PropsResult(response.data, <<>>)

getStaticPropsISRNoPost(response) ==
    IF response.rejected THEN Thrown
    ELSE IF NoId(response.data) THEN NotFoundResult
    ELSE PropsResult(EmptyBody, <<revalidate>>)

getStaticPropsISRCatch(response) ==
    IF response.rejected \/ NoId(response.data) THEN NotFoundResult
    ELSE PropsResult(response.data, <<revalidate>>)

\* posts/[postId].tsx with revalidate.
getStaticPropsISR(response) ==
    IF response.rejected THEN Thrown
    ELSE IF NoId(response.data) THEN NotFoundResult
    ELSE PropsResult(response.data, <<revalidate>>)

getStaticProps(r, response) ==
    CASE r \in {"users", "postsStatic"} -> getStaticPropsPlain(response)
      [] r = "postsFallback" -> getStaticPropsFallback(response)
      [] r = "postsISR" -> getStaticPropsISR(response)

\* A field of the props as the JSX prints it: nothing when it is absent.
Field(data, f) == IF f \in DOMAIN data THEN <<data[f]>> ELSE <<>>

\* The page components.
User(user) ==
    <<"div", "p", "ID:">> \o Field(user, "id")
        \o <<"p", "Name:">> \o Field(user, "name")
        \o <<"p", "Email:">> \o Field(user, "email")

PostPlain(post) ==
    <<"h2">> \o Field(post, "id") \o Field(post, "title") \o <<"p">> \o Field(post, "body")

PostIgnoresFallback(isFallback, post) == PostPlain(post)

Post(isFallback, post) ==
    IF isFallback THEN <<"h1", "Loading...">> ELSE PostPlain(post)

\* The default export of the page file, as the runtime renders it: isFallback
\* is the router's flag, read only by Post of the two fallback pages.
Page(r, isFallback, props) ==
    CASE r = "users" -> User(props)
      [] r = "postsStatic" -> PostPlain(props)
      [] r \in {"postsFallback", "postsISR"} -> Post(isFallback, props)

\* pages/404.tsx
PageNotFound == <<"h1", "404 Page with all the custom stying necessary.">>

(* ------------------------------------------------------------------ *)
(* State                                                               *)
(* ------------------------------------------------------------------ *)
VARIABLES
    route,      \* the page file that is deployed
    target,     \* the route parameter the requests of this run carry
    phase,      \* "build" (npm run build), "serve" (npm run start), "buildFailed"
    clock,      \* seconds since the build generated its pages
    version,    \* revision of the backend content
    cache,      \* .next/server/pages: route parameter -> generated page
    inflight,   \* generations of /route/target that are running
    fetchLog,   \* <<route parameter, phase>> of every axios.get issued
    lastResp,   \* the answer to the latest request
    lastRun,    \* what the latest finished generation ended in
    pending,    \* a run of the page's data function awaits the backend's reply
    runs,       \* runs of the page's data function started
    calls,      \* GET requests issued by those runs
    out,        \* how the latest of those runs ended
    query,      \* router.query of the page in the browser
    isLoading,      \* Dashboard: useState(true)
    dashboardData,  \* Dashboard: useState({})
    fetched,    \* Dashboard: what response.json() resolved with, if it did
    swr,        \* DashboardSWR: the data and error useSWR returns
    pc,         \* Dashboard: where fetchDashboardData stands
    effectDue,  \* Dashboard: a render was committed and its effects have not run
    fetches,    \* Dashboard: calls of fetch
    renders,    \* renders of the page component in the browser
    view        \* what the latest render returned

\* The variables of one run of a data function, followed from its GET to
\* its outcome.
runVars == <<pending, runs, calls, out>>

\* The variables of a page component running in the browser.
clientVars == <<query, isLoading, dashboardData, fetched, swr, pc, effectDue, fetches,
                renders, view>>

vars == <<route, target, phase, clock, version, cache, inflight, fetchLog, lastResp, lastRun,
          pending, runs, calls, out,
          query, isLoading, dashboardData, fetched, swr, pc, effectDue, fetches, renders, view>>

\* undefined; a defined value x is <<x>>.
Undefined == <<>>

\* No page component runs in a browser.
NoClient ==
    /\ query = EmptyBody
    /\ isLoading = TRUE
    /\ dashboardData = EmptyBody
    /\ fetched = Undefined
    /\ swr = [data |-> Undefined, error |-> Undefined]
    /\ pc = "idle"
    /\ effectDue = FALSE
    /\ fetches = 0
    /\ renders = 0
    /\ view = <<>>

EmptySlot == [kind |-> "none", html |-> <<>>, at |-> 0, revalidate |-> <<>>]
PageSlot(r, res, now) ==
    [kind |-> "page", html |-> Page(r, FALSE, res.props), at |-> now, revalidate |-> res.revalidate]
NotFoundSlot(now) == [kind |-> "notFound", html |-> PageNotFound, at |-> now, revalidate |-> <<>>]

\* What the runtime keeps for a result of getStaticProps.
SlotOf(r, res, now) == IF res.notFound THEN NotFoundSlot(now) ELSE PageSlot(r, res, now)

NoResp == [n |-> 0, kind |-> "none", html |-> <<>>, age |-> "none", started |-> FALSE]
NoRun == [rejected |-> FALSE, kind |-> "none", html |-> <<>>]

Flip(n) == 1 - n

\* props: the props handed to the page component, as a sequence that is
\* empty when the component was not called.
NoOutcome == [kind |-> "none", html |-> <<>>, props |-> <<>>, paths |-> <<>>,
              reply |-> [rejected |-> FALSE, data |-> EmptyBody], version |-> 0]

Init ==
    /\ route \in Routes
    /\ target \in RouteParameters
    /\ phase = "build"
    /\ clock = 0
    /\ version = 0
    /\ cache = [s \in RouteParameters |-> EmptySlot]
    /\ inflight = 0
    /\ fetchLog = {}
    /\ lastResp = NoResp
    /\ lastRun = NoRun
    /\ pending = FALSE
    /\ runs = 0
    /\ calls = 0
    /\ out = NoOutcome
    /\ NoClient

(* ------------------------------------------------------------------ *)
(* Environment                                                         *)
(* ------------------------------------------------------------------ *)
\* A second passes.
Tick ==
    /\ phase = "serve"
    /\ clock < MaxTime
    /\ clock' = clock + 1
    /\ UNCHANGED <<route, target, phase, version, cache, inflight, fetchLog, lastResp, lastRun>>
    /\ UNCHANGED runVars
    /\ UNCHANGED clientVars

\* The backend content changes.
Update ==
    /\ version < MaxVersion
    /\ version' = version + 1
    /\ UNCHANGED <<route, target, phase, clock, cache, inflight, fetchLog, lastResp, lastRun>>
    /\ UNCHANGED runVars
    /\ UNCHANGED clientVars

(* ------------------------------------------------------------------ *)
(* npm run build                                                       *)
(* ------------------------------------------------------------------ *)
\* The build runs getStaticProps for every path getStaticPaths returned and
\* writes the pages; an exception in one of them fails the build, and no
\* server is started.
Build ==
    /\ phase = "build"
    /\ fetchLog' = fetchLog \cup {<<s, "build">> : s \in KnownSet(route)}
    /\ \E rejected \in SUBSET KnownSet(route) :
        LET res(s) == getStaticProps(route, AxiosGet(route, s, version, s \notin rejected))
        IN  IF \E s \in KnownSet(route) : res(s).threw
            THEN /\ phase' = "buildFailed"
                 /\ cache' = cache
            ELSE /\ phase' = "serve"
                 /\ cache' = [s \in RouteParameters |->
                                IF s \in KnownSet(route)
                                THEN SlotOf(route, res(s), clock)
                                ELSE cache[s]]
    /\ UNCHANGED <<route, target, clock, version, inflight, lastResp, lastRun>>
    /\ UNCHANGED runVars
    /\ UNCHANGED clientVars

(* ------------------------------------------------------------------ *)
(* npm run start                                                       *)
(* ------------------------------------------------------------------ *)
\* The second at which a page may be re-generated: none without revalidate.
Expired(slot, now) == slot.revalidate # <<>> /\ now > slot.at + slot.revalidate[1]
OnTheSecond(slot, now) == slot.revalidate # <<>> /\ now = slot.at + slot.revalidate[1]

\* Whether a request that needs a generation starts one: it does when none
\* is running; when one is running both outcomes are taken.
Starts(needed, running) ==
    IF ~needed THEN {FALSE}
    ELSE IF running = 0 THEN {TRUE}
    ELSE IF running < MaxInflight THEN {TRUE, FALSE}
    ELSE {FALSE}

\* How old the page a request finds is, against its revalidate.
Age(slot, now) ==
    IF slot.kind = "none" THEN "none"
    ELSE IF slot.revalidate = <<>> THEN "untimed"
    ELSE IF Expired(slot, now) THEN "after"
    ELSE IF OnTheSecond(slot, now) THEN "onTheSecond"
    ELSE "within"

Respond(kind, html, started) ==
    /\ lastResp' = [n |-> Flip(lastResp.n), kind |-> kind, html |-> html,
                    age |-> Age(cache[target], clock), started |-> started]
    /\ inflight' = IF started THEN inflight + 1 ELSE inflight
    /\ fetchLog' = IF started THEN fetchLog \cup {<<target, "serve">>} ELSE fetchLog

\* A request for /route/target.
Request ==
    /\ phase = "serve"
    /\ LET slot == cache[target] IN
        \/ /\ slot.kind = "none"
           /\ ~getStaticPaths(route).fallback
           /\ Respond("notFound", PageNotFound, FALSE)
        \/ /\ slot.kind = "none"
           /\ getStaticPaths(route).fallback
           /\ \E st \in Starts(TRUE, inflight) :
                Respond("placeholder", Page(route, TRUE, EmptyBody), st)
        \/ /\ slot.kind # "none"
           /\ \E needed \in (IF Expired(slot, clock) THEN {TRUE}
                             ELSE IF OnTheSecond(slot, clock) THEN {TRUE, FALSE}
                             ELSE {FALSE}) :
              \E st \in Starts(needed, inflight) :
                Respond(slot.kind, slot.html, st)
    /\ UNCHANGED <<route, target, phase, clock, version, cache, lastRun>>
    /\ UNCHANGED runVars
    /\ UNCHANGED clientVars

\* A <Link /> to /route/target in a visitor's viewport is pre-fetched (the
\* posts list links the posts the backend lists, 1 to 100): the JSON of a
\* path that is not generated yet is generated in the background, and no
\* fallback page is shown.  A pre-fetch that finds a generated page is a
\* request like any other.
Prefetch ==
    /\ phase = "serve"
    /\ SegmentId(target) \in 1..LastId
    /\ cache[target].kind = "none"
    /\ getStaticPaths(route).fallback
    /\ \E st \in Starts(TRUE, inflight) :
        /\ inflight' = IF st THEN inflight + 1 ELSE inflight
        /\ fetchLog' = IF st THEN fetchLog \cup {<<target, "serve">>} ELSE fetchLog
    /\ UNCHANGED <<route, target, phase, clock, version, cache, lastResp, lastRun>>
    /\ UNCHANGED runVars
    /\ UNCHANGED clientVars

\* A running generation of /route/target ends: axios.get settles with the
\* backend's current data and getStaticProps returns or throws.  A page
\* replaces what was kept, an exception leaves it.
RunComplete ==
    /\ phase = "serve"
    /\ inflight > 0
    /\ inflight' = inflight - 1
    /\ \E ok \in BOOLEAN :
        LET res == getStaticProps(route, AxiosGet(route, target, version, ok))
            slot == SlotOf(route, res, clock)
        IN  IF res.threw
            THEN /\ lastRun' = [rejected |-> ~ok, kind |-> "failure", html |-> <<>>]
                 /\ cache' = cache
            ELSE /\ lastRun' = [rejected |-> ~ok, kind |-> slot.kind, html |-> slot.html]
                 /\ IF res.notFound
                    THEN \E keep \in BOOLEAN :
                            cache' = IF keep THEN [cache EXCEPT ![target] = slot] ELSE cache
                    ELSE cache' = [cache EXCEPT ![target] = slot]
    /\ UNCHANGED <<route, target, phase, clock, version, fetchLog, lastResp>>
    /\ UNCHANGED runVars
    /\ UNCHANGED clientVars

Next ==
    \/ Tick
    \/ Update
    \/ Build
    \/ Request
    \/ Prefetch
    \/ RunComplete

Spec == Init /\ [][Next]_vars

TypeOK ==
    /\ route \in Routes
    /\ target \in RouteParameters
    /\ phase \in {"build", "serve", "buildFailed"}
    /\ clock \in 0..MaxTime
    /\ version \in 0..MaxVersion
    /\ inflight \in 0..MaxInflight

(* ------------------------------------------------------------------ *)
(* Server-side rendered pages: /news and /news/{category}              *)
(* ------------------------------------------------------------------ *)
\* db.json of the JSON server, as the lessons give it.
NewsDocumented ==
    << [id |-> 1, title |-> "News Article 1", description |-> "Description 1",
        category |-> "sports"],
       [id |-> 2, title |-> "News Article 2", description |-> "Description 2",
        category |-> "politics"],
       [id |-> 3, title |-> "News Article 3", description |-> "Description 3",
        category |-> "sports"] >>

\* db.json at revision v (json-server --watch db.json): every revision adds
\* one article, in a category the documented data does not have.
News(v) ==
    NewsDocumented \o
        [k \in 1..v |-> [id |-> 3 + k, title |-> "News Article added",
                         description |-> "Description added",
                         category |-> "entertainment"]]

\* The categories a request for /news/{category} may name.
Categories == {"sports", "politics", "entertainment"}

\* /news has no dynamic segment.
NoParameter == "-"

\* A parsed JSON body of the JSON server: an array, an object that is no
\* array, or null.
JsonArray(items) == [json |-> "array", items |-> items]
JsonObject == [json |-> "object", items |-> <<>>]
JsonNull == [json |-> "null", items |-> <<>>]

\* GET /news and GET /news?category=c at revision v.
NewsGet(c, v) ==
    JsonArray(IF c = NoParameter THEN News(v)
              ELSE SelectSeq(News(v), LAMBDA a : a.category = c))

\* await fetch(url) followed by await response.json(): resolves with the
\* parsed body, or rejects (no connection, or a body that is no JSON).
FetchJson(body, ok) ==
    IF ok THEN [rejected |-> FALSE, data |-> body]
    ELSE [rejected |-> TRUE, data |-> JsonNull]

\* !data.length
NoLength(data) == data.json # "array" \/ Len(data.items) = 0

getServerSidePropsNewsCatch(response) ==
    IF response.rejected THEN PropsResult([articles |-> JsonArray(<<>>)], <<>>)
    ELSE PropsResult([articles |-> response.data], <<>>)

getServerSidePropsNewsFixed(response) ==
    IF response.rejected THEN Thrown
    ELSE PropsResult([articles |-> JsonArray(NewsDocumented)], <<>>)

\* news/index.tsx
getServerSidePropsNews(response) ==
    IF response.rejected THEN Thrown
    ELSE PropsResult([articles |-> response.data], <<>>)

\* news/[category].tsx before the notFound lesson: props, whatever came.
getServerSidePropsCategoryAll(category, response) ==
    IF response.rejected THEN Thrown
    ELSE PropsResult([articles |-> response.data, category |-> category], <<>>)

\* news/[category].tsx.  Reading .length of null is a TypeError.
getServerSidePropsCategory(category, response) ==
    IF response.rejected THEN Thrown
    ELSE IF response.data.json = "null" THEN Thrown
    ELSE IF NoLength(response.data) THEN NotFoundResult
    ELSE PropsResult([articles |-> response.data, category |-> category], <<>>)

\* The page components.  articles.map of a value that is no array is a
\* TypeError: the rendering throws.
NewsArticleList(props) ==
    IF props.articles.json # "array" THEN [threw |-> TRUE, html |-> <<>>]
    ELSE [threw |-> FALSE,
          html |-> <<"h2", "List of News Articles">> \o
                   [i \in DOMAIN props.articles.items |->
                        LET article == props.articles.items[i]
                        IN  <<"div", "h2", article.id, article.title, "|",
                              article.category>>]]

ArticleListByCategory(props) ==
    IF props.articles.json # "array" THEN [threw |-> TRUE, html |-> <<>>]
    ELSE [threw |-> FALSE,
          html |-> <<"h1", "Showing news for category:", props.category>> \o
                   [i \in DOMAIN props.articles.items |->
                        LET article == props.articles.items[i]
                        IN  <<"div", "h2", article.id, article.title, "p",
                              article.description, "hr">>]]

PerRequestRoutes == {"news", "newsCategory"}

(* ------------------------------------------------------------------ *)
(* List pages: /posts, /users, and the fetched paths of /posts/{id}    *)
(* ------------------------------------------------------------------ *)
MaxList == 4         \* records in a list the backend returns

\* The ids the records of a backend list may carry.
ListIds == {1, 2, 3, 100}

\* The record with a given id in GET /posts or GET /users at revision v.
ListRecord(kind, id, v) ==
    IF kind = "users"
    THEN [id |-> id, name |-> <<"name", v>>, email |-> <<"email", v>>]
    ELSE [userId |-> 1, id |-> id, title |-> <<"title", v>>, body |-> <<"body", v>>]

\* The lists GET /posts or GET /users may return: records of distinct ids,
\* in any order.
BackendLists(kind, v) ==
    UNION {{[i \in 1..n |-> ListRecord(kind, ids[i], v)] :
                ids \in {f \in [1..n -> ListIds] :
                            \A i, j \in 1..n : i # j => f[i] # f[j]}} :
           n \in 0..(IF MaxList < Cardinality(ListIds) THEN MaxList
                     ELSE Cardinality(ListIds))}

\* `${post.id}`, `/users/${user.id}`: the decimal string of a number.
TemplateLiteral(n) == ToString(n)

\* array.slice(0, 3)
SliceThree(items) == SubSeq(items, 1, IF Len(items) < 3 THEN Len(items) ELSE 3)

getStaticPathsHardCoded(response) ==
    IF response.rejected \/ response.data.json # "array"
    THEN [threw |-> TRUE, paths |-> <<>>, fallback |-> FALSE]
    ELSE [threw |-> FALSE, paths |-> StaticPaths, fallback |-> FALSE]

\* posts/[postId].tsx with the paths fetched from GET /posts.  data.map of a
\* value that is no array is a TypeError.
getStaticPathsFetched(response) ==
    IF response.rejected \/ response.data.json # "array"
    THEN [threw |-> TRUE, paths |-> <<>>, fallback |-> FALSE]
    ELSE [threw |-> FALSE,
          paths |-> [i \in DOMAIN response.data.items |->
                        TemplateLiteral(response.data.items[i].id)],
          fallback |-> FALSE]

\* posts/index.tsx
getStaticPropsPostList(response) ==
    IF response.rejected THEN Thrown
    ELSE PropsResult([posts |-> response.data], <<>>)

\* users.tsx
getStaticPropsUserList(response) ==
    IF response.rejected THEN Thrown
    ELSE PropsResult([users |-> response.data], <<>>)

getStaticPropsUsersListAll(response) ==
    IF response.rejected \/ response.data.json # "array" THEN Thrown
    ELSE PropsResult([users |-> response.data], <<>>)

\* users/index.tsx: the first three users.  slice of a value that is no
\* array is a TypeError.
getStaticPropsUsersList(response) ==
    IF response.rejected \/ response.data.json # "array" THEN Thrown
    ELSE PropsResult([users |-> JsonArray(SliceThree(response.data.items))], <<>>)

PostListReversed(props) ==
    IF props.posts.json # "array" THEN [threw |-> TRUE, html |-> <<>>]
    ELSE [threw |-> FALSE,
          html |-> <<"h1", "List of Posts:">> \o
                   [i \in DOMAIN props.posts.items |->
                        LET post == props.posts.items[Len(props.posts.items) + 1 - i]
                        IN  <<"div", "Link", <<"/posts/", TemplateLiteral(post.id)>>,
                              "h2", post.id, post.title, "hr">>]]

PostList(props) ==
    IF props.posts.json # "array" THEN [threw |-> TRUE, html |-> <<>>]
    ELSE [threw |-> FALSE,
          html |-> <<"h1", "List of Posts:">> \o
                   [i \in DOMAIN props.posts.items |->
                        LET post == props.posts.items[i]
                        IN  <<"div", "Link", <<"/posts/", TemplateLiteral(post.id)>>,
                              "h2", post.id, post.title, "hr">>]]

UserComponentCounting(user) == <<"p", user.name, "p", user.email, runs>>

\* components/user.tsx
UserComponent(user) == <<"p", user.name, "p", user.email>>

UserList(props) ==
    IF props.users.json # "array" THEN [threw |-> TRUE, html |-> <<>>]
    ELSE [threw |-> FALSE,
          html |-> <<"h1", "List of users">> \o
                   [i \in DOMAIN props.users.items |->
                        <<"div">> \o UserComponent(props.users.items[i])]]

UsersList(props) ==
    IF props.users.json # "array" THEN [threw |-> TRUE, html |-> <<>>]
    ELSE [threw |-> FALSE,
          html |-> [i \in DOMAIN props.users.items |->
                        LET user == props.users.items[i]
                        IN  <<"div", "Link", <<"/users/", TemplateLiteral(user.id)>>,
                              user.id, ".", user.name>>]]

\* The list pages, and the build step that fetches the paths.
ListRoutes == {"postsList", "usersList", "usersLinks", "postsPaths"}


(* ------------------------------------------------------------------ *)
(* One run of a page's data function                                   *)
(* ------------------------------------------------------------------ *)
MaxRuns == 3         \* runs of a data function that are followed

\* The pages that fetch from the backend.
PageRoutes == Routes \cup PerRequestRoutes \cup ListRoutes

\* The parameters a page's data function is run for: every one where the
\* page is generated on demand, the paths of getStaticPaths otherwise.
PageParameters(r) ==
    CASE r = "news" -> {NoParameter}
      [] r = "newsCategory" -> Categories
      [] r \in ListRoutes -> {NoParameter}
      [] r \in Routes ->
            IF getStaticPaths(r).fallback THEN RouteParameters ELSE KnownSet(r)

\* What the GET of a run may settle with: the backend's answer at revision
\* v, a rejection, or a body of another shape (an empty object, a record of
\* the id alone, a record whose id is 0; for the JSON server an object that
\* is no array, or null; for a list an object that is no array).
Replies(r, p, v) ==
    IF r \in PerRequestRoutes
    THEN {FetchJson(NewsGet(p, v), ok) : ok \in BOOLEAN}
            \cup {FetchJson(body, TRUE) : body \in {JsonObject, JsonNull}}
    ELSE IF r \in ListRoutes
    THEN {[rejected |-> FALSE, data |-> JsonArray(list)] :
                list \in BackendLists(IF r \in {"usersList", "usersLinks"}
                                      THEN "users" ELSE "posts", v)}
            \cup {[rejected |-> FALSE, data |-> JsonObject],
                  [rejected |-> TRUE, data |-> JsonNull]}
    ELSE {AxiosGet(r, p, v, ok) : ok \in BOOLEAN}
            \cup {[rejected |-> FALSE, data |-> body] :
                    body \in {EmptyBody, [id |-> SegmentId(p)],
                              [AxiosGet(r, "1", v, TRUE).data EXCEPT !.id = 0]}}

\* The data function the page file exports.
DataFunction(r, p, response) ==
    CASE r \in Routes -> getStaticProps(r, response)
      [] r = "news" -> getServerSidePropsNews(response)
      [] r = "newsCategory" -> getServerSidePropsCategory(p, response)
      [] r = "postsList" -> getStaticPropsPostList(response)
      [] r = "usersList" -> getStaticPropsUserList(response)
      [] r = "usersLinks" -> getStaticPropsUsersList(response)

\* The page component rendered with the props.
Rendered(r, props) ==
    CASE r \in Routes -> [threw |-> FALSE, html |-> Page(r, FALSE, props)]
      [] r = "news" -> NewsArticleList(props)
      [] r = "newsCategory" -> ArticleListByCategory(props)
      [] r = "postsList" -> PostList(props)
      [] r = "usersList" -> UserList(props)
      [] r = "usersLinks" -> UsersList(props)

\* How a run ends: an exception of the data function or of the rendering
\* is a failure (the error page), notFound is the 404 page, props are the
\* rendered page.  A run of getStaticPaths ends in the paths it returned.
Outcome(r, p, response, v) ==
    LET res == DataFunction(r, p, response)
        base == [kind |-> "failure", html |-> <<>>, props |-> <<>>, paths |-> <<>>,
                 reply |-> response, version |-> v]
    IN  IF r = "postsPaths"
        THEN IF getStaticPathsFetched(response).threw THEN base
             ELSE [base EXCEPT !.kind = "paths",
                               !.paths = <<getStaticPathsFetched(response)>>]
        ELSE IF res.threw THEN base
        ELSE IF res.notFound
             THEN [base EXCEPT !.kind = "notFound", !.html = PageNotFound]
        ELSE IF Rendered(r, res.props).threw
             THEN [base EXCEPT !.props = <<res.props>>]
        ELSE [base EXCEPT !.kind = "page", !.html = Rendered(r, res.props).html,
                          !.props = <<res.props>>]

\* The fields the declared shape of a record names (PostSchema in full; of
\* UserSchema the fields the backend records of this model carry).
DeclaredFields(r) ==
    IF r = "users" THEN {"id", "name", "email"}
    ELSE {"userId", "id", "title", "body"}

\* Whether a parsed body has the declared shape: the record's fields for a
\* user or a post, an array (ArticlesType) for the news pages.
MatchesShape(r, data) ==
    IF r \in PerRequestRoutes \cup ListRoutes THEN data.json = "array"
    ELSE DeclaredFields(r) \subseteq DOMAIN data

\* The resolution modes the exports of a page file ask the runtime for:
\* getServerSideProps is PerRequest; fallback: true is on-demand fallback;
\* a revalidate key is time-boxed refresh; neither is plain Eager.
ModesOf(r) ==
    IF r \in PerRequestRoutes THEN {"PerRequest"}
    ELSE IF r \in ListRoutes THEN {"Eager"}
    ELSE LET onDemand == getStaticPaths(r).fallback
             timed == \E s \in KnownSet(r) :
                        getStaticProps(r, AxiosGet(r, s, 0, TRUE)).revalidate # <<>>
         IN  {"EagerKnownSet+OnDemandFallback" : x \in {y \in {TRUE} : onDemand}}
                \cup {"TimeBoxedRefresh" : x \in {y \in {TRUE} : timed}}
                \cup {"Eager" : x \in {y \in {TRUE} : ~onDemand /\ ~timed}}

InitRuns ==
    /\ route \in PageRoutes
    /\ target \in PageParameters(route)
    /\ phase = "build"
    /\ clock = 0
    /\ version = 0
    /\ cache = [s \in RouteParameters |-> EmptySlot]
    /\ inflight = 0
    /\ fetchLog = {}
    /\ lastResp = NoResp
    /\ lastRun = NoRun
    /\ pending = FALSE
    /\ runs = 0
    /\ calls = 0
    /\ out = NoOutcome
    /\ NoClient

\* The data function is called (on /news and /news/{category}: a request
\* arrives) and issues its GET.
Start ==
    /\ ~pending
    /\ runs < MaxRuns
    /\ pending' = TRUE
    /\ runs' = runs + 1
    /\ calls' = calls + 1
    /\ UNCHANGED <<route, target, phase, clock, version, cache, inflight, fetchLog,
                   lastResp, lastRun, out>>
    /\ UNCHANGED clientVars

\* The GET settles and the function returns or throws; the page is rendered
\* and the run is over.
Settle ==
    /\ pending
    /\ pending' = FALSE
    /\ \E response \in Replies(route, target, version) :
        out' = Outcome(route, target, response, version)
    /\ UNCHANGED <<route, target, phase, clock, version, cache, inflight, fetchLog,
                   lastResp, lastRun, runs, calls>>
    /\ UNCHANGED clientVars

NextRuns ==
    \/ Start
    \/ Settle
    \/ Update

SpecRuns == InitRuns /\ [][NextRuns]_vars

(* ------------------------------------------------------------------ *)
(* Pages that fetch in the browser: /dashboard, /dashboard-swr, and    *)
(* the catch-all /docs/{...params}                                     *)
(* ------------------------------------------------------------------ *)
MaxRenders == 4      \* renders of a page component that are followed
MaxSegments == 3     \* segments of a /docs URL

ClientRoutes == {"dashboard", "dashboardSWR", "docs"}

\* db.json "dashboard"; the lesson edits likes from 100 to 150.
DashboardGet(v) ==
    [posts |-> 5, likes |-> IF v = 0 THEN 100 ELSE 150, followers |-> 20, following |-> 50]

\* What response.json() of GET /dashboard may resolve with: the record, or
\* an object without the fields.
DashboardBodies(v) == {DashboardGet(v), EmptyBody}

\* The JSX both dashboard components return for a record.
DashboardFields(data) ==
    <<"div", "h2", "Dashboard", "h2", "Posts - ">> \o Field(data, "posts")
        \o <<"h2", "Likes - ">> \o Field(data, "likes")
        \o <<"h2", "Followers - ">> \o Field(data, "followers")
        \o <<"h2", "Following - ">> \o Field(data, "following")

\* dashboard.tsx
Dashboard(loading, data) ==
    IF loading THEN <<"h2", "Loading...">> ELSE DashboardFields(data)

\* useEffect(..., []): the effect runs after the first render only.
useEffectRuns(firstRender) == firstRender

SettersFlagFirst == <<"setIsLoading", "setDashboardData">>

\* The state setters fetchDashboardData calls once the body is parsed.
Setters == <<"setDashboardData", "setIsLoading">>

\* The component's state after a setter ran.
Set(setter, st, data) ==
    IF setter = "setDashboardData" THEN [st EXCEPT !.dashboardData = data]
    ELSE [st EXCEPT !.isLoading = FALSE]

fetchDashboardDataCaught(loading) == FALSE

\* isLoading after an await of fetchDashboardData rejected: the function has
\* no catch, no setter runs.
fetchDashboardDataRejected(loading) == loading

DashboardSWRDataFirst(data, error) ==
    IF data # Undefined THEN DashboardFields(data[1])
    ELSE IF error # Undefined THEN <<"An error has occured">>
    ELSE <<"Loading...">>

\* dashboard-swr.tsx
DashboardSWR(data, error) ==
    IF error # Undefined THEN <<"An error has occured">>
    ELSE IF data = Undefined THEN <<"Loading...">>
    ELSE DashboardFields(data[1])

\* The segments a /docs URL may have, and the URLs of one to MaxSegments
\* segments.
DocSegments == {"feature1", "concept1", "example1"}
DocPaths == UNION {[1..n -> DocSegments] : n \in 1..MaxSegments}

DocPrefix(q) ==
    LET params == IF "params" \in DOMAIN q THEN q.params ELSE <<>>
    IN  IF Len(params) >= 2
        THEN <<"h1", "Viewing docs for feature", params[1], "and concept", params[2]>>
        ELSE IF Len(params) = 1
        THEN <<"h1", "Viewing docs for feature", params[1]>>
        ELSE <<"h1", "Docs Home Page">>

\* docs/[...params].tsx
Doc(q) ==
    LET params == IF "params" \in DOMAIN q THEN q.params ELSE <<>>
    IN  IF Len(params) = 2
        THEN <<"h1", "Viewing docs for feature", params[1], "and concept", params[2]>>
        ELSE IF Len(params) = 1
        THEN <<"h1", "Viewing docs for feature", params[1]>>
        ELSE <<"h1", "Docs Home Page">>

\* The pre-rendered page arrives in the browser: the first render, with the
\* initial state and an empty router.query.
InitClient ==
    /\ route \in ClientRoutes
    /\ target = NoParameter
    /\ phase = "serve"
    /\ clock = 0
    /\ version = 0
    /\ cache = [s \in RouteParameters |-> EmptySlot]
    /\ inflight = 0
    /\ fetchLog = {}
    /\ lastResp = NoResp
    /\ lastRun = NoRun
    /\ pending = FALSE
    /\ runs = 0
    /\ calls = 0
    /\ out = NoOutcome
    /\ query = EmptyBody
    /\ isLoading = TRUE
    /\ dashboardData = EmptyBody
    /\ fetched = Undefined
    /\ swr = [data |-> Undefined, error |-> Undefined]
    /\ pc = "idle"
    /\ effectDue = (route = "dashboard")
    /\ fetches = 0
    /\ renders = 1
    /\ view = CASE route = "dashboard" -> Dashboard(TRUE, EmptyBody)
                [] route = "dashboardSWR" -> DashboardSWR(Undefined, Undefined)
                [] route = "docs" -> Doc(EmptyBody)

frame == <<route, target, phase, clock, version, cache, inflight, fetchLog, lastResp,
           lastRun>>

\* React runs the effects of the committed render.
RunEffects ==
    /\ route = "dashboard"
    /\ effectDue
    /\ effectDue' = FALSE
    /\ IF useEffectRuns(renders = 1)
       THEN fetches' = fetches + 1 /\ pc' = "fetching"
       ELSE UNCHANGED <<fetches, pc>>
    /\ UNCHANGED <<query, isLoading, dashboardData, fetched, swr, renders, view>>
    /\ UNCHANGED frame
    /\ UNCHANGED runVars

\* An await of fetchDashboardData rejected.
Reject ==
    /\ pc' = "failed"
    /\ isLoading' = fetchDashboardDataRejected(isLoading)
    /\ view' = Dashboard(isLoading', dashboardData)
    /\ UNCHANGED <<dashboardData, fetched, renders, effectDue>>

\* await fetch('http://localhost:4000/dashboard') settles.
FetchSettles ==
    /\ route = "dashboard"
    /\ pc = "fetching"
    /\ \/ pc' = "parsing"
          /\ UNCHANGED <<isLoading, dashboardData, fetched, renders, effectDue, view>>
       \/ Reject
    /\ UNCHANGED <<query, swr, fetches>>
    /\ UNCHANGED frame
    /\ UNCHANGED runVars

\* await response.json() settles; when it resolves the setters are called,
\* and React renders after both (batched) or after each.
JsonSettles ==
    /\ route = "dashboard"
    /\ pc = "parsing"
    /\ \/ /\ renders < MaxRenders
          /\ \E data \in DashboardBodies(version), batched \in BOOLEAN :
              LET st0 == [isLoading |-> isLoading, dashboardData |-> dashboardData]
                  st1 == Set(Setters[1], st0, data)
                  st2 == Set(Setters[2], st1, data)
                  st == IF batched THEN st2 ELSE st1
              IN  /\ fetched' = <<data>>
                  /\ isLoading' = st.isLoading
                  /\ dashboardData' = st.dashboardData
                  /\ pc' = IF batched THEN "done" ELSE "set"
                  /\ renders' = renders + 1
                  /\ effectDue' = TRUE
                  /\ view' = Dashboard(isLoading', dashboardData')
       \/ Reject
    /\ UNCHANGED <<query, swr, fetches>>
    /\ UNCHANGED frame
    /\ UNCHANGED runVars

\* The second setter, when React rendered after the first.
SecondSetter ==
    /\ route = "dashboard"
    /\ pc = "set"
    /\ renders < MaxRenders
    /\ LET st == Set(Setters[2],
                     [isLoading |-> isLoading, dashboardData |-> dashboardData],
                     fetched[1])
       IN  /\ isLoading' = st.isLoading
           /\ dashboardData' = st.dashboardData
    /\ pc' = "done"
    /\ renders' = renders + 1
    /\ effectDue' = TRUE
    /\ view' = Dashboard(isLoading', dashboardData')
    /\ UNCHANGED <<query, fetched, swr, fetches>>
    /\ UNCHANGED frame
    /\ UNCHANGED runVars

\* useSWR returns other values (the fetcher settled, or the library
\* revalidated) and the component renders again.
SWRReturns ==
    /\ route = "dashboardSWR"
    /\ renders < MaxRenders
    /\ \E data \in {Undefined} \cup {<<DashboardGet(v)>> : v \in 0..version},
          error \in {Undefined, <<"Error">>} :
        /\ swr' = [data |-> data, error |-> error]
        /\ swr' # swr
    /\ view' = DashboardSWR(swr'.data, swr'.error)
    /\ renders' = renders + 1
    /\ UNCHANGED <<query, isLoading, dashboardData, fetched, pc, effectDue, fetches>>
    /\ UNCHANGED frame
    /\ UNCHANGED runVars

\* The router has the params of the URL (hydration), or the browser
\* navigates to another /docs URL; the component renders again.
RouteChange ==
    /\ route = "docs"
    /\ renders < MaxRenders
    /\ \E params \in DocPaths :
        /\ query' = [params |-> params]
        /\ query' # query
    /\ view' = Doc(query')
    /\ renders' = renders + 1
    /\ UNCHANGED <<isLoading, dashboardData, fetched, swr, pc, effectDue, fetches>>
    /\ UNCHANGED frame
    /\ UNCHANGED runVars

NextClient ==
    \/ RunEffects
    \/ FetchSettles
    \/ JsonSettles
    \/ SecondSetter
    \/ SWRReturns
    \/ RouteChange
    \/ Update

SpecClient == InitClient /\ [][NextClient]_vars

(* ------------------------------------------------------------------ *)
(* Claims                                                              *)
(* ------------------------------------------------------------------ *)
\* A request was answered in this step.
Answered == lastResp'.n # lastResp.n
\* A generation of /route/target ended in this step.
RunEnded == inflight' < inflight

EagerRoutes == {"users", "postsStatic"}
FallbackRoutes == {"postsFallback", "postsISR"}
KnownParameters == {"1", "2", "3"}
Loading == <<"h1", "Loading...">>
\* The full page of post `id` at backend revision v.
FullPost(id, v) == <<"h2", id, <<"title", v>>, "p", <<"body", v>>>>
FullPosts(id) == {FullPost(id, v) : v \in 0..MaxVersion}

\* C1: with fallback: false (/users/{userId}, and /posts/{postId} before the
\* fallback lesson) a request for a parameter outside {1,2,3} is answered
\* NotFound in every state: never a page or the placeholder, no generation
\* is started or running for it, no axios.get is issued for it and nothing
\* is kept for it.
C1_UnknownIsNotFound ==
    (route \in EagerRoutes /\ target \notin KnownParameters) =>
        /\ lastResp.kind \in {"none", "notFound"}
        /\ lastResp.kind = "notFound" => lastResp.html = PageNotFound
        /\ ~lastResp.started
        /\ inflight = 0
        /\ \A ph \in {"build", "serve"} : <<target, ph>> \notin fetchLog
        /\ cache[target].kind = "none"

C1_Witness ==
    /\ route = "users"
    /\ target = "101"
    /\ phase = "serve"
    /\ lastResp.kind = "notFound"
    /\ lastResp.n = 0

\* C2: with fallback: false, axios.get for a known parameter is issued during
\* the build only: once the server runs, the build has fetched it, and no
\* request for it issues a fetch or starts a generation, whatever the time.
C2_FetchOnlyAtBuild ==
    (route \in EagerRoutes /\ target \in KnownParameters) =>
        /\ <<target, "serve">> \notin fetchLog
        /\ inflight = 0
        /\ ~lastResp.started
        /\ phase = "serve" => <<target, "build">> \in fetchLog
        /\ lastResp.kind # "none" => lastResp.kind = "page"

C2_Witness ==
    /\ route = "users"
    /\ target = "2"
    /\ lastResp.kind = "page"
    /\ clock > 10
    /\ fetchLog = {<<"1", "build">>, <<"2", "build">>, <<"3", "build">>}

\* C3: revalidate: 10 on /posts/{postId}: while a page generated at t0 is
\* kept, every request before t0 + 10 is answered with exactly the kept page
\* and starts no generation and no fetch; and between t0 and t0 + 10 the kept
\* page is replaced only by a generation that was already running.
C3_FreshServesCache ==
    [][ (route = "postsISR" /\ cache[target].kind = "page"
            /\ clock < cache[target].at + 10) =>
          /\ Answered =>
                /\ lastResp'.kind = "page"
                /\ lastResp'.html = cache[target].html
                /\ ~lastResp'.started
                /\ inflight' = inflight
                /\ fetchLog' = fetchLog
                /\ cache' = cache
          /\ inflight = 0 => cache'[target] = cache[target]
      ]_vars

C3_Witness ==
    /\ route = "postsISR"
    /\ cache[target].kind = "page"
    /\ clock = cache[target].at + 5
    /\ version > 0
    /\ lastResp.kind = "page"
    /\ lastResp.age = "within"
    /\ lastResp.html = cache[target].html
    /\ lastResp.n = 0
    /\ inflight = 0

\* C4: revalidate: 10: a request that arrives more than 10 seconds after the
\* kept page was generated is answered with the kept (stale) page, not with
\* a new one and not with the placeholder, the kept page is not changed by
\* the request, and afterwards a generation is running: the first such
\* request (none running yet) starts it and issues the fetch.
C4_StaleServedAndRegenerates ==
    [][ (route = "postsISR" /\ cache[target].kind = "page"
            /\ clock > cache[target].at + 10 /\ Answered) =>
          /\ lastResp'.kind = "page"
          /\ lastResp'.html = cache[target].html
          /\ lastResp'.html # Loading
          /\ cache' = cache
          /\ inflight' >= 1
          /\ inflight = 0 =>
                /\ lastResp'.started
                /\ inflight' = 1
                /\ <<target, "serve">> \in fetchLog'
      ]_vars

C4_Witness ==
    /\ route = "postsISR"
    /\ target = "1"
    /\ clock = 11
    /\ version = 1
    /\ cache[target].at = 0
    /\ lastResp.kind = "page"
    /\ lastResp.age = "after"
    /\ lastResp.started
    /\ lastResp.html = FullPost(1, 0)
    /\ inflight = 1

\* C5: revalidate: 10: when a re-generation ends with a page, the kept page
\* is the page of the backend's current record, stamped with the current
\* second; and every request is answered with the page kept at that moment,
\* which is the page of the latest generation when that one produced a page.
C5_RegeneratedPageReplaces ==
    [][ (route = "postsISR" /\ SegmentId(target) \in 1..100) =>
          /\ (RunEnded /\ ~lastRun'.rejected) =>
                /\ cache'[target].kind = "page"
                /\ cache'[target].html = FullPost(SegmentId(target), version)
                /\ cache'[target].at = clock
                /\ lastRun'.html = cache'[target].html
          /\ (Answered /\ cache[target].kind = "page") =>
                /\ lastResp'.html = cache[target].html
                /\ lastRun.kind = "page" => lastResp'.html = lastRun.html
      ]_vars

C5_Witness ==
    /\ route = "postsISR"
    /\ target = "2"
    /\ lastRun.kind = "page"
    /\ lastRun.html = FullPost(2, 1)
    /\ cache[target].html = FullPost(2, 1)
    /\ cache[target].at > 10
    /\ lastResp.kind = "page"
    /\ lastResp.html = FullPost(2, 1)
    /\ lastResp.age = "within"
    /\ inflight = 0

\* C6: revalidate: 10: when the axios.get of a re-generation is rejected, the
\* kept page is left as it is and nothing is sent to a requester; requests
\* keep being answered with the kept page, never with an error or NotFound.
C6_FailedRegenerationKeepsPage ==
    [][ (route = "postsISR" /\ cache[target].kind = "page") =>
          /\ (RunEnded /\ lastRun'.rejected) =>
                /\ cache' = cache
                /\ lastResp' = lastResp
                /\ lastRun'.kind = "failure"
          /\ cache'[target].kind = "page"
          /\ Answered => (lastResp'.kind = "page" /\ lastResp'.html = cache[target].html)
      ]_vars

C6_Witness ==
    /\ route = "postsISR"
    /\ target = "3"
    /\ lastRun.rejected
    /\ version = 1
    /\ cache[target].html = FullPost(3, 0)
    /\ cache[target].at = 0
    /\ clock > 11
    /\ lastResp.kind = "page"
    /\ lastResp.html = FullPost(3, 0)
    /\ inflight = 0

\* C7: revalidate: 10: a re-generation of a kept page is started only by a
\* request, and only by one that arrives 10 seconds or more after the page
\* was generated; a second passing starts none, issues no fetch and changes
\* no kept page; a kept page changes only when a generation ends.
C7_OnlyRequestsRegenerate ==
    [][ (route = "postsISR" /\ cache[target].kind = "page") =>
          /\ (inflight' > inflight \/ <<target, "serve">> \in fetchLog' \ fetchLog) =>
                /\ Answered
                /\ lastResp'.started
                /\ clock >= cache[target].at + 10
          /\ clock' # clock =>
                (inflight' = inflight /\ fetchLog' = fetchLog /\ cache' = cache)
          /\ cache'[target] # cache[target] => RunEnded
      ]_vars

\* No request for 12 seconds: the page of the build is still the kept one.
C7_Witness ==
    /\ route = "postsISR"
    /\ target = "1"
    /\ clock = 12
    /\ version = 1
    /\ lastResp.kind = "none"
    /\ cache[target].html = FullPost(1, 0)
    /\ cache[target].at = 0
    /\ <<"1", "serve">> \notin fetchLog

C9_KnownNeverPlaceholder ==
    (route \in FallbackRoutes /\ target \in KnownParameters /\ lastResp.kind # "none") =>
        /\ lastResp.kind = "page"
        /\ lastResp.html \in FullPosts(SegmentId(target))
        /\ lastResp.html # Loading

C9_Witness ==
    /\ route = "postsFallback"
    /\ target = "3"
    /\ lastResp.kind = "page"
    /\ lastResp.n = 1
    /\ lastResp.html = FullPost(3, 0)

\* A run of the data function started / ended in this step.
RunStarted == ~pending /\ pending'
RunSettled == pending /\ ~pending'

\* The ids of a list of articles, in order.
ArticleIds(items) == [i \in DOMAIN items |-> items[i].id]

\* C12 as stated: on /users/{userId} and /posts/{postId}, a run whose
\* backend lookup resolves with an empty body ends NotFound, never in a page
\* rendered from empty fields.
C12_EmptyBodyIsNotFound ==
    (route \in {"users", "postsISR"} /\ out.kind # "none"
        /\ ~out.reply.rejected /\ out.reply.data = [none |-> TRUE]) =>
        /\ out.kind = "notFound"
        /\ out.html = <<"h1", "404 Page with all the custom stying necessary.">>

\* C13: /news/{category}: when the JSON server answers with its array, the
\* outcome is NotFound exactly when the array is empty, and otherwise the
\* page whose props hold that array and the requested category; with the
\* documented db.json sports lists articles 1 and 3, politics lists article
\* 2, and entertainment is NotFound.
C13_CategoryNotFoundOrArticles ==
    (route = "newsCategory" /\ out.kind # "none"
        /\ ~out.reply.rejected /\ out.reply.data.json = "array") =>
        /\ out.kind \in {"notFound", "page"}
        /\ out.kind = "notFound" <=> Len(out.reply.data.items) = 0
        /\ out.kind = "page" =>
              /\ out.props[1].articles.items = out.reply.data.items
              /\ out.props[1].category = target
              /\ out.html[3] = target
              /\ Len(out.html) = 3 + Len(out.reply.data.items)
        /\ out.version = 0 =>
              CASE target = "sports" ->
                      out.kind = "page"
                          /\ ArticleIds(out.props[1].articles.items) = <<1, 3>>
                [] target = "politics" ->
                      out.kind = "page"
                          /\ ArticleIds(out.props[1].articles.items) = <<2>>
                [] target = "entertainment" -> out.kind = "notFound"

C13_Witness ==
    /\ route = "newsCategory"
    /\ target = "sports"
    /\ version = 0
    /\ out.kind = "page"
    /\ ArticleIds(out.props[1].articles.items) = <<1, 3>>
    /\ out.props[1].category = "sports"
    /\ runs = 2
    /\ ~pending

\* C14 as stated: a run ends NotFound only when the record is absent (an
\* empty array on /news/{category}, a body without id on /posts/{postId});
\* a rejected GET, and a body that has not the declared shape, end in the
\* failure outcome, never in NotFound and never in a page.
C14_OnlyAbsentIsNotFound ==
    (route \in {"newsCategory", "postsISR"} /\ out.kind # "none") =>
        LET absent == IF route = "newsCategory"
                      THEN out.reply.data.json = "array" /\ Len(out.reply.data.items) = 0
                      ELSE "id" \notin DOMAIN out.reply.data
            shaped == IF route = "newsCategory"
                      THEN out.reply.data.json = "array"
                      ELSE {"userId", "id", "title", "body"} \subseteq DOMAIN out.reply.data
        IN  /\ out.kind = "notFound" => (~out.reply.rejected /\ absent)
            /\ (out.reply.rejected \/ (~shaped /\ ~absent)) => out.kind = "failure"

\* C15: /news and /news/{category}: every request runs the data function,
\* which issues one GET, so the GETs issued are as many as the requests
\* received; nothing is kept for any parameter; and the page a request is
\* answered with holds the articles the JSON server has when the request is
\* answered, not those of an earlier revision.
C15_EveryRequestFetches ==
    [][ (route \in {"news", "newsCategory"}) =>
          /\ calls = runs /\ calls' = runs'
          /\ RunStarted => (runs' = runs + 1 /\ calls' = calls + 1)
          /\ RunSettled =>
                /\ calls' = calls
                /\ out'.version = version
                /\ (~out'.reply.rejected /\ out'.reply.data.json = "array"
                        /\ out'.kind = "page") =>
                      /\ out'.props[1].articles.items = NewsGet(target, version).items
                      /\ Len(out'.html) =
                            (IF route = "news" THEN 2 ELSE 3)
                                + Len(NewsGet(target, version).items)
          /\ (\A s \in DOMAIN cache' : cache'[s].kind = "none")
      ]_vars

C15_Witness ==
    /\ route = "news"
    /\ version = 1
    /\ runs = 2
    /\ calls = 2
    /\ ~pending
    /\ out.kind = "page"
    /\ out.version = 1
    /\ ArticleIds(out.props[1].articles.items) = <<1, 2, 3, 4>>

\* C16 as stated: the props handed to a page component always come from a
\* body that has the declared shape; a body of another shape ends the run
\* in the failure outcome (NotFound when it is the empty body or the empty
\* list) before the component is called.
C16_ValidatedBeforeRender ==
    (out.kind # "none" /\ ~out.reply.rejected /\ ~MatchesShape(route, out.reply.data)) =>
        /\ out.props = <<>>
        /\ out.kind \in {"failure", "notFound"}

\* C17 as stated: every page route is configured with exactly one
\* resolution mode.
C17_OneModePerRoute == Cardinality(ModesOf(route)) = 1

\* C18: whatever a request is answered with, and whatever a generation
\* ends in, tells its kind: the placeholder is the Loading heading and
\* nothing else is; NotFound is the 404 page and nothing else is; a page
\* is neither, it opens with the component's own element.
C18_OutcomesDistinguishable ==
    /\ lastResp.kind # "none" =>
          /\ lastResp.kind \in {"placeholder", "notFound", "page"}
          /\ lastResp.kind = "placeholder" <=> lastResp.html = <<"h1", "Loading...">>
          /\ lastResp.kind = "notFound" <=>
                lastResp.html = <<"h1", "404 Page with all the custom stying necessary.">>
          /\ lastResp.kind = "page" <=> lastResp.html[1] \in {"h2", "div"}
    /\ lastRun.kind = "notFound" <=>
          lastRun.html = <<"h1", "404 Page with all the custom stying necessary.">>
    /\ lastRun.kind = "page" =>
          (lastRun.html[1] \in {"h2", "div"} /\ lastRun.html # <<"h1", "Loading...">>)
    /\ \A s \in DOMAIN cache :
          /\ cache[s].html # <<"h1", "Loading...">>
          /\ cache[s].kind = "notFound" <=>
                cache[s].html = <<"h1", "404 Page with all the custom stying necessary.">>

C18_Witness ==
    /\ route = "postsISR"
    /\ target = "101"
    /\ lastRun.kind = "notFound"
    /\ cache[target].kind = "notFound"
    /\ lastResp.kind = "notFound"
    /\ lastResp.n = 0
    /\ cache["1"].kind = "page"

\* C19: fallback: true on /posts/{postId}, parameter 101 (no such post): the
\* first request, and every request that finds nothing kept, is answered
\* with the Loading placeholder and leaves a generation running; a
\* generation whose GET resolves ends in NotFound (the 404 page); no page is
\* ever generated, kept or served for 101, and a kept NotFound is what later
\* requests are answered with.
C19_UnknownAbsentEndsNotFound ==
    [][ (route \in FallbackRoutes /\ target = "101") =>
          /\ (Answered /\ (lastResp.kind = "none" \/ cache[target].kind = "none")) =>
                /\ lastResp'.kind = "placeholder"
                /\ lastResp'.html = <<"h1", "Loading...">>
                /\ inflight' >= 1
          /\ (RunEnded /\ ~lastRun'.rejected) =>
                /\ lastRun'.kind = "notFound"
                /\ lastRun'.html = <<"h1", "404 Page with all the custom stying necessary.">>
          /\ RunEnded => lastRun'.kind \in {"notFound", "failure"}
          /\ cache'[target].kind # "page"
          /\ lastResp'.kind # "page"
          /\ (Answered /\ cache[target].kind = "notFound") => lastResp'.kind = "notFound"
      ]_vars

C19_Witness ==
    /\ route = "postsFallback"
    /\ target = "101"
    /\ lastResp.kind = "placeholder"
    /\ lastResp.started
    /\ lastResp.n = 1
    /\ lastRun.kind = "notFound"
    /\ ~lastRun.rejected
    /\ inflight = 0

\* C20: every run of a data function issues exactly one GET: the GETs
\* issued are as many as the runs started, whatever the replies were; when
\* the GET is rejected the run ends there, in the failure outcome, with no
\* further GET, no props and no page.
C20_OneGetNoRetry ==
    [][ /\ calls = runs /\ calls' = runs'
        /\ RunStarted => (runs' = runs + 1 /\ calls' = calls + 1)
        /\ calls' # calls => RunStarted
        /\ (RunSettled /\ out'.reply.rejected) =>
              /\ out'.kind = "failure"
              /\ out'.props = <<>>
              /\ out'.html = <<>>
              /\ calls' = calls
              /\ runs' = runs
      ]_vars

C20_Witness ==
    /\ route = "news"
    /\ out.kind = "failure"
    /\ out.reply.rejected
    /\ runs = 1
    /\ calls = 1
    /\ ~pending

\* C21: the kept pages (.next/server/pages): nothing is kept before the
\* build; a slot changes only when the build succeeds (the paths of
\* getStaticPaths) or when a generation of that parameter ends whose GET was
\* not rejected, and then it holds that generation's output; a slot that
\* holds something is never emptied, and a kept page is replaced only by a
\* page.
C21_SlotsOnlyPopulated ==
    [][ /\ phase = "build" => \A s \in DOMAIN cache : cache[s].kind = "none"
        /\ \A s \in DOMAIN cache :
              /\ cache[s].kind # "none" => cache'[s].kind # "none"
              /\ cache[s].kind = "page" => cache'[s].kind = "page"
              /\ cache'[s] # cache[s] =>
                    \/ /\ phase = "build" /\ phase' = "serve"
                       /\ s \in {"1", "2", "3"}
                       /\ <<s, "build">> \in fetchLog'
                    \/ /\ RunEnded
                       /\ s = target
                       /\ ~lastRun'.rejected
                       /\ lastRun'.kind \in {"page", "notFound"}
                       /\ cache'[s].kind = lastRun'.kind
                       /\ cache'[s].html = lastRun'.html
        /\ phase' = "buildFailed" => cache' = cache
        /\ (RunEnded /\ lastRun'.kind = "failure") => cache' = cache
      ]_vars

C21_Witness ==
    /\ route = "postsISR"
    /\ target = "4"
    /\ version = 1
    /\ lastRun.kind = "failure"
    /\ cache[target].kind = "page"
    /\ cache[target].html = <<"h2", 4, <<"title", 0>>, "p", <<"body", 0>>>>
    /\ cache[target].at > 0
    /\ clock > cache[target].at + 10
    /\ inflight = 0

\* The decimal numeral of an id.
Decimal(n) == CASE n = 1 -> "1" [] n = 2 -> "2" [] n = 3 -> "3" [] n = 100 -> "100"

\* The list a list page was given, and the number of elements the page
\* renders before the list.
ListOf(props) ==
    CASE route \in {"news", "newsCategory"} -> props.articles.items
      [] route = "postsList" -> props.posts.items
      [] route \in {"usersList", "usersLinks"} -> props.users.items
HeaderOf(r) == IF r = "newsCategory" THEN 3 ELSE IF r = "usersLinks" THEN 0 ELSE 2

C25_PathsAreTheListedPosts ==
    (route = "postsPaths" /\ out.kind # "none"
        /\ ~out.reply.rejected /\ out.reply.data.json = "array") =>
        LET items == out.reply.data.items
        IN  /\ out.kind = "paths"
            /\ out.paths[1].fallback = FALSE
            /\ Len(out.paths[1].paths) = Len(items)
            /\ \A i \in 1..Len(items) : out.paths[1].paths[i] = Decimal(items[i].id)
            /\ {out.paths[1].paths[i] : i \in 1..Len(out.paths[1].paths)}
                  = {Decimal(items[i].id) : i \in 1..Len(items)}

C25_Witness ==
    /\ route = "postsPaths"
    /\ out.kind = "paths"
    /\ ArticleIds(out.reply.data.items) = <<100, 1>>
    /\ out.paths[1].paths = <<"100", "1">>
    /\ ~out.paths[1].fallback

\* C29: /posts/{postId} with fallback: when the GET resolves, the run ends
\* NotFound exactly when the body has no id or its id is 0; a post that
\* exists with id 0 is NotFound.
C29_FalsyIdIsNotFound ==
    (route \in {"postsFallback", "postsISR"} /\ out.kind # "none"
        /\ ~out.reply.rejected) =>
        (out.kind = "notFound"
            <=> ("id" \notin DOMAIN out.reply.data \/ out.reply.data.id = 0))

C29_Witness ==
    /\ route = "postsISR"
    /\ out.kind = "notFound"
    /\ ~out.reply.rejected
    /\ {"userId", "id", "title", "body"} \subseteq DOMAIN out.reply.data
    /\ out.reply.data.id = 0
    /\ out.reply.data.title = <<"title", 0>>

\* C30: /users: the list page links the first three users of the list and
\* no other; the detail route knows 1, 2 and 3 and has fallback false; so
\* when the first three users are 1, 2 and 3 every link of the list page is
\* a known path.
C30_ListLinksAreKnown ==
    /\ KnownSet("users") = {"1", "2", "3"}
    /\ ~getStaticPaths("users").fallback
    /\ (route = "usersLinks" /\ out.kind = "page") =>
          LET items == out.reply.data.items
              n == IF Len(items) < 3 THEN Len(items) ELSE 3
          IN  /\ Len(out.html) = n
              /\ \A i \in 1..n :
                    out.html[i] = <<"div", "Link", <<"/users/", Decimal(items[i].id)>>,
                                    items[i].id, ".", items[i].name>>
              /\ ({items[i].id : i \in 1..n} \subseteq {1, 2, 3}) =>
                    \A i \in 1..Len(out.html) :
                        out.html[i][3] \in {<<"/users/", "1">>, <<"/users/", "2">>,
                                            <<"/users/", "3">>}

C30_Witness ==
    /\ route = "usersLinks"
    /\ out.kind = "page"
    /\ ArticleIds(out.reply.data.items) = <<2, 1, 3, 100>>
    /\ Len(out.html) = 3
    /\ out.html[3][3] = <<"/users/", "3">>

\* C24: /docs/{...params}: with exactly two segments the page shows feature
\* params[0] and concept params[1], with exactly one it shows feature
\* params[0], and with any other number (none while router.query has no
\* params, or three and more) it shows the Docs Home Page.
C24_DocBySegmentCount ==
    (route = "docs") =>
        LET n == IF "params" \in DOMAIN query THEN Len(query.params) ELSE 0
        IN  /\ n = 2 => view = <<"h1", "Viewing docs for feature", query.params[1],
                                 "and concept", query.params[2]>>
            /\ n = 1 => view = <<"h1", "Viewing docs for feature", query.params[1]>>
            /\ n \notin {1, 2} => view = <<"h1", "Docs Home Page">>

C24_Witness ==
    /\ route = "docs"
    /\ renders = 3
    /\ query = [params |-> <<"feature1", "concept1", "example1">>]
    /\ view = <<"h1", "Docs Home Page">>

\* What C26 says of a state of the Dashboard component.
C26_State ==
    /\ renders = 1 => (isLoading /\ view = <<"h2", "Loading...">>)
    /\ fetches <= 1
    /\ (~effectDue \/ renders > 1) => fetches = 1
    /\ ~isLoading =>
          /\ fetched # <<>>
          /\ dashboardData = fetched[1]
          /\ view[1] = "div"

\* C26: Dashboard starts in the Loading state, calls fetch once and never
\* again, shows the data only when dashboardData is the fetched record, and
\* isLoading, once false, stays false.
C26_DataBeforeFlag ==
    [][ (route = "dashboard") =>
            /\ C26_State
            /\ C26_State'
            /\ ~isLoading => ~isLoading'
      ]_vars

C26_Witness ==
    /\ route = "dashboard"
    /\ pc = "done"
    /\ ~effectDue
    /\ renders = 3
    /\ fetches = 1
    /\ ~isLoading
    /\ dashboardData = [posts |-> 5, likes |-> 150, followers |-> 20, following |-> 50]
    /\ view = <<"div", "h2", "Dashboard", "h2", "Posts - ", 5, "h2", "Likes - ", 150,
                "h2", "Followers - ", 20, "h2", "Following - ", 50>>

\* C27: Dashboard: when the fetch or the parsing of the body fails, no
\* setter runs and the component shows Loading from then on; isLoading
\* becomes false only in a step that follows a parsed body.
C27_FailureStaysLoading ==
    [][ (route = "dashboard") =>
            /\ pc' = "failed" =>
                  /\ isLoading'
                  /\ view' = <<"h2", "Loading...">>
                  /\ dashboardData' = dashboardData
                  /\ fetched' = fetched
            /\ pc = "failed" => (pc' = "failed" /\ renders' = renders)
            /\ (isLoading /\ ~isLoading') =>
                  (pc \in {"parsing", "set"} /\ pc' # "failed" /\ fetched' # <<>>)
      ]_vars

C27_Witness ==
    /\ route = "dashboard"
    /\ pc = "failed"
    /\ fetches = 1
    /\ fetched = <<>>
    /\ version = 1
    /\ isLoading
    /\ view = <<"h2", "Loading...">>

\* C28: DashboardSWR shows 'An error has occured' whenever useSWR returns
\* an error, also together with data; 'Loading...' when it returns neither
\* error nor data; and the dashboard fields otherwise.
C28_ErrorThenLoadingThenData ==
    (route = "dashboardSWR") =>
        /\ swr.error # <<>> => view = <<"An error has occured">>
        /\ (swr.error = <<>> /\ swr.data = <<>>) => view = <<"Loading...">>
        /\ (swr.error = <<>> /\ swr.data # <<>>) =>
              view = <<"div", "h2", "Dashboard", "h2", "Posts - ", swr.data[1].posts,
                       "h2", "Likes - ", swr.data[1].likes,
                       "h2", "Followers - ", swr.data[1].followers,
                       "h2", "Following - ", swr.data[1].following>>

C28_Witness ==
    /\ route = "dashboardSWR"
    /\ swr.error = <<"Error">>
    /\ swr.data = <<[posts |-> 5, likes |-> 100, followers |-> 20, following |-> 50]>>
    /\ view = <<"An error has occured">>

====
